---- MODULE Spec2Model ----
(***************************************************************************)
(* Model of web_app.py: a Streamlit script that sends uploaded text files  *)
(* to a streaming generation service, accumulates the streamed fragments,  *)
(* stores the full text in the SQLite table analysis_history, and renders  *)
(* a relationship graph decoded from a stored summary.                     *)
(*                                                                         *)
(* A text is a sequence of characters.  Every widget interaction reruns    *)
(* the script from the top: the sidebar lists the table (lines 50-51), one *)
(* button at most is handled, and section 5 (lines 144-160) displays the   *)
(* selected record.  The batch loop of lines 92-142 is split at its        *)
(* suspension points: the call to the service, each fragment delivered by  *)
(* the generator, the end of the stream, the pause between files.          *)
(***************************************************************************)
EXTENDS Integers, Sequences, FiniteSets, TLC

\* ------------------------------------------------------------------ bounds
MaxUploads == 3        \* files uploaded in one behaviour, over all its batches
MaxChunks == 1         \* fragments of one stream
MaxStreamUploads == 2  \* files uploaded, where the fragments' texts vary
MaxStreamChunks == 2   \* fragments of one stream, where their texts vary
MaxBlobLen == 4    \* characters of a blob given to render_graph

\* ------------------------------------------------------- program constants
SizeLimit == 1048576   \* 1024 * 1024, line 94

\* ------------------------------------------------------------------ inputs
Files == {[name |-> "a.txt", size |-> SizeLimit],
          [name |-> "b.txt", size |-> SizeLimit + 1],
          [name |-> "c.txt", size |-> SizeLimit - 1]}
\* the files where the fragments' texts vary
StreamFiles == {f \in Files : f.name \in {"a.txt", "b.txt"}}
Batches(F, n) == UNION {[1..k -> F] : k \in 1..n}
Keys == {"", "key"}
\* what datetime.now().strftime("%m-%d %H:%M") may return
Times == {"11-05 16:34"}
\* chunk.text of one fragment: one text where the store and the loop are
\* studied, several (the empty one too) where the accumulation is
Fragments == {<<"a">>}
StreamFragments == {<<>>, <<"a">>, <<"b", "{">>}

VARIABLES
  analysis_history,  \* the table: a set of rows [id, filename, summary, time]
  sqlite_sequence,   \* largest id the AUTOINCREMENT column ever assigned
  history,           \* the sidebar's listing of the current script run
  selected_id,       \* st.session_state.selected_id, <<>> when not set
  view,              \* what section 5 of the latest finished run displayed
  pc,                \* "idle", or the position inside the batch loop
  uploaded_files,    \* the batch being processed
  index,             \* 1-based position of the loop in uploaded_files
  full_response,     \* the generator's accumulation buffer
  yielded,           \* the fragments the generator has yielded for this file
  log,               \* side effects of the current script run, in order
  rows0,             \* the table when the current script run started
  issued,            \* every id assigned by an insert, in order
  held,              \* the row selected_id resolved to when it was set
  uploads            \* files uploaded so far, over all batches

vars == <<analysis_history, sqlite_sequence, history, selected_id, view, pc,
          uploaded_files, index, full_response, yielded, log, rows0, issued,
          held, uploads>>

\* ---------------------------------------------------------------- helpers
RECURSIVE Flatten(_)
Flatten(ss) == IF ss = <<>> THEN <<>> ELSE Head(ss) \o Flatten(Tail(ss))

MaxOf(S) == IF S = {} THEN 0 ELSE CHOOSE m \in S : \A x \in S : x <= m

Ev(op, f) == [op |-> op, file |-> f]

\* the positions of the events of kind op for file f in a log
Events(l, op, f) == {k \in DOMAIN l : l[k] = Ev(op, f)}

\* ------------------------------------------------------------ Record Store
\* faulty variant: INTEGER PRIMARY KEY without AUTOINCREMENT, which reuses the ids of
\* deleted rows
NextIdRowid(rows, sq) == MaxOf({r.id : r \in rows}) + 1

\* INTEGER PRIMARY KEY AUTOINCREMENT: one more than the largest id the table
\* ever held, which sqlite_sequence remembers across DELETE.
NextId(rows, sq) == MaxOf({sq} \cup {r.id : r \in rows}) + 1

Insert(rows, sq, filename, summary, now) ==
  rows \cup {[id |-> NextId(rows, sq), filename |-> filename,
              summary |-> summary, time |-> now]}

\* faulty variant: a DELETE whose WHERE clause spares the newest row
DeleteAllButNewest(rows) == {r \in rows : \A y \in rows : y.id <= r.id}

\* DELETE FROM analysis_history
DeleteAll(rows) == {}

\* SELECT id, filename, time ... ORDER BY id DESC
RECURSIVE ListAll(_)
ListAll(rows) ==
  IF rows = {} THEN <<>>
  ELSE LET r == CHOOSE x \in rows : \A y \in rows : y.id <= x.id
       IN <<[id |-> r.id, filename |-> r.filename, time |-> r.time]>>
          \o ListAll(rows \ {r})

\* SELECT filename, summary ... WHERE id=? ... fetchone()
Fetch(rows, id) ==
  IF \E r \in rows : r.id = id
  THEN <<CHOOSE r \in rows : r.id = id>>
  ELSE <<>>

\* --------------------------------------------------- Relationship Extractor
\* The characters of a blob.  "N", "E" and "X" each stand for the text of one
\* well-formed member of a JSON object:
\*   "N"  "nodes": ["A", "B"]
\*   "E"  "edges": [["A", "B", "r"]]
\*   "X"  "edges": [["A"]]            (decodes, but e[1] raises IndexError)
\* "t" is a character of prose, and "{", "}", "," are themselves.
Chars == {"t", "{", "}", ",", "N", "E", "X"}
Members == {"N", "E", "X"}
Blobs == UNION {[1..n -> Chars] : n \in 0..MaxBlobLen}

\* str.find: 0-based index of the first occurrence, -1 when absent
find(s, ch) ==
  IF \E i \in 1..Len(s) : s[i] = ch
  THEN (CHOOSE i \in 1..Len(s) : s[i] = ch /\ \A j \in 1..(i - 1) : s[j] # ch) - 1
  ELSE -1

\* str.rfind: 0-based index of the last occurrence, -1 when absent
rfind(s, ch) ==
  IF \E i \in 1..Len(s) : s[i] = ch
  THEN (CHOOSE i \in 1..Len(s) : s[i] = ch /\ \A j \in (i + 1)..Len(s) : s[j] # ch) - 1
  ELSE -1

\* s[start:end] for 0 <= start and 0 <= end <= len(s)
Slice(s, start, end) == IF start < end THEN SubSeq(s, start + 1, end) ELSE <<>>

\* json.loads accepts exactly one object: "{", members separated by ",", "}"
JsonValid(s) ==
  /\ Len(s) >= 2
  /\ s[1] = "{"
  /\ s[Len(s)] = "}"
  /\ LET inner == SubSeq(s, 2, Len(s) - 1)
     IN \/ inner = <<>>
        \/ /\ Len(inner) % 2 = 1
           /\ \A i \in 1..Len(inner) :
                IF i % 2 = 1 THEN inner[i] \in Members ELSE inner[i] = ","

MemberKey(m) == IF m = "N" THEN "nodes" ELSE "edges"

\* data.get(key, []): the value of the last member with that key
JsonGet(s, key) ==
  LET at == {i \in 2..(Len(s) - 1) : s[i] \in Members /\ MemberKey(s[i]) = key}
  IN IF at = {} THEN <<>>
     ELSE LET m == s[MaxOf(at)]
          IN IF m = "N" THEN <<"A", "B">>
             ELSE IF m = "E" THEN <<<<"A", "B", "r">>>>
             ELSE <<<<"A">>>>

Info == [kind |-> "info", nodes |-> <<>>, edges |-> <<>>]
Warning == [kind |-> "warning", nodes |-> <<>>, edges |-> <<>>]
Propagated == [kind |-> "exception", nodes |-> <<>>, edges |-> <<>>]

\* faulty variant: only the opening brace is looked for
graph_body_no_end(raw_text) ==
  LET start == find(raw_text, "{")
      end == rfind(raw_text, "}") + 1
      text == Slice(raw_text, start, end)
      nodes == JsonGet(text, "nodes")
      edges == JsonGet(text, "edges")
  IN IF start = -1
     THEN [raised |-> FALSE, value |-> Info]
     ELSE IF ~JsonValid(text)
     THEN [raised |-> TRUE, value |-> Propagated]
     ELSE IF \E i \in 1..Len(edges) : Len(edges[i]) < 3
     THEN [raised |-> TRUE, value |-> Propagated]
     ELSE [raised |-> FALSE,
           value |-> [kind |-> "graph", nodes |-> nodes, edges |-> edges]]

\* the try block of render_graph: what it returns, or that it raised
graph_body(raw_text) ==
  LET start == find(raw_text, "{")
      end == rfind(raw_text, "}") + 1
      text == Slice(raw_text, start, end)
      nodes == JsonGet(text, "nodes")
      edges == JsonGet(text, "edges")
  IN IF start = -1 \/ end = 0
     THEN [raised |-> FALSE, value |-> Info]
     ELSE IF ~JsonValid(text)
     THEN [raised |-> TRUE, value |-> Propagated]
     ELSE IF \E i \in 1..Len(edges) : Len(edges[i]) < 3
     THEN [raised |-> TRUE, value |-> Propagated]
     ELSE [raised |-> FALSE,
           value |-> [kind |-> "graph", nodes |-> nodes, edges |-> edges]]

\* render_graph: except Exception turns whatever was raised into the warning
render_graph(raw_text) ==
  LET got == graph_body(raw_text)
  IN IF got.raised THEN Warning ELSE got.value

\* res[1].split('{')[0]: the text before the first "{"
text_only(summary) ==
  IF find(summary, "{") = -1 THEN summary
  ELSE Slice(summary, 0, find(summary, "{"))

\* section 5: the report of the selected record, <<>> when nothing is shown
Display(rows, sel) ==
  IF sel = <<>> THEN <<>>
  ELSE LET res == Fetch(rows, sel[1])
       IN IF res = <<>> THEN <<>>
          ELSE <<[filename |-> res[1].filename,
                  text |-> text_only(res[1].summary),
                  graph |-> render_graph(res[1].summary)]>>

\* ------------------------------------------------------------- script runs
Init ==
  /\ analysis_history = {}
  /\ sqlite_sequence = 0
  /\ history = <<>>
  /\ selected_id = <<>>
  /\ view = <<>>
  /\ pc = "idle"
  /\ uploaded_files = <<>>
  /\ index = 0
  /\ full_response = <<>>
  /\ yielded = <<>>
  /\ log = <<>>
  /\ rows0 = {}
  /\ issued = <<>>
  /\ held = <<>>
  /\ uploads = 0

\* a run of the script in which no button fires (any other widget changed)
Rerun ==
  /\ pc = "idle"
  /\ history' = ListAll(analysis_history)
  /\ view' = Display(analysis_history, selected_id)
  /\ log' = <<>>
  /\ rows0' = analysis_history
  /\ uploaded_files' = <<>>
  /\ index' = 0
  /\ UNCHANGED <<analysis_history, sqlite_sequence, selected_id, pc,
                 full_response, yielded, issued, held, uploads>>

\* lines 53-57: a history button of the sidebar is clicked
SelectHistory(id) ==
  /\ pc = "idle"
  /\ \E k \in DOMAIN history : history[k].id = id
  /\ \E r \in analysis_history : r.id = id
  /\ history' = ListAll(analysis_history)
  /\ selected_id' = <<id>>
  /\ held' = Fetch(analysis_history, id)
  /\ view' = Display(analysis_history, <<id>>)
  /\ log' = <<>>
  /\ rows0' = analysis_history
  /\ uploaded_files' = <<>>
  /\ index' = 0
  /\ UNCHANGED <<analysis_history, sqlite_sequence, pc, full_response,
                 yielded, issued, uploads>>

\* lines 59-62: the clear-all button; st.rerun() runs the script again, which
\* lists the table and displays the selected record
ClearAll ==
  /\ pc = "idle"
  /\ analysis_history' = DeleteAll(analysis_history)
  /\ history' = ListAll(analysis_history')
  /\ view' = Display(analysis_history', selected_id)
  /\ log' = <<Ev("delete_all", 0)>>
  /\ rows0' = analysis_history
  /\ uploaded_files' = <<>>
  /\ index' = 0
  /\ UNCHANGED <<sqlite_sequence, selected_id, pc, full_response,
                 yielded, issued, held, uploads>>

\* faulty variant: the loop is not under the else of the credential check
StartBatchNoElse(files, api_key) ==
  /\ pc = "idle"
  /\ files # <<>>
  /\ uploads' = uploads + Len(files)
  /\ history' = ListAll(analysis_history)
  /\ rows0' = analysis_history
  /\ uploaded_files' = files
  /\ log' = IF api_key = "" THEN <<Ev("missing_credential", 0)>>
            ELSE <<Ev("configure", 0)>>
  /\ pc' = "loop"
  /\ index' = 1
  /\ UNCHANGED <<analysis_history, sqlite_sequence, selected_id, view,
                 full_response, yielded, issued, held>>

\* lines 85-90: the batch button is clicked with files uploaded
StartBatch(files, api_key) ==
  /\ pc = "idle"
  /\ files # <<>>
  /\ uploads' = uploads + Len(files)
  /\ history' = ListAll(analysis_history)
  /\ rows0' = analysis_history
  /\ uploaded_files' = files
  /\ IF api_key = ""
     THEN /\ log' = <<Ev("missing_credential", 0)>>
          /\ view' = Display(analysis_history, selected_id)
          /\ index' = 0
          /\ UNCHANGED pc
     ELSE /\ log' = <<Ev("configure", 0)>>
          /\ pc' = "loop"
          /\ index' = 1
          /\ UNCHANGED view
  /\ UNCHANGED <<analysis_history, sqlite_sequence, selected_id, full_response,
                 yielded, issued, held>>

\* ------------------------------------------------------------ batch loop
InLoop == pc = "loop" /\ index <= Len(uploaded_files)

\* faulty variant: the comparison includes the limit
TooLargeAtLimit(file) == file.size >= SizeLimit

\* line 94: file.size > 1024 * 1024
TooLarge(file) == file.size > SizeLimit

\* lines 94-96: the size guard
Skip ==
  /\ InLoop
  /\ TooLarge(uploaded_files[index])
  /\ log' = Append(log, Ev("skip", index))
  /\ index' = index + 1
  /\ full_response' = <<>>
  /\ yielded' = <<>>
  /\ UNCHANGED <<analysis_history, sqlite_sequence, history, selected_id, view,
                 pc, uploaded_files, rows0, issued, held, uploads>>

\* lines 98-122: generate_content returns the response stream
GenerateStarts ==
  /\ InLoop
  /\ ~TooLarge(uploaded_files[index])
  /\ log' = Append(log, Ev("generate", index))
  /\ pc' = "stream"
  /\ full_response' = <<>>
  /\ yielded' = <<>>
  /\ UNCHANGED <<analysis_history, sqlite_sequence, history, selected_id, view,
                 uploaded_files, index, rows0, issued, held, uploads>>

\* lines 118, 141-142: generate_content raises
GenerateFails ==
  /\ InLoop
  /\ ~TooLarge(uploaded_files[index])
  /\ log' = log \o <<Ev("generate", index), Ev("error", index)>>
  /\ index' = index + 1
  /\ full_response' = <<>>
  /\ yielded' = <<>>
  /\ UNCHANGED <<analysis_history, sqlite_sequence, history, selected_id, view,
                 pc, uploaded_files, rows0, issued, held, uploads>>

\* faulty variant: the row is inserted inside the loop over the fragments
StreamChunkEager(text) ==
  /\ pc = "stream"
  /\ full_response' = full_response \o text
  /\ yielded' = Append(yielded, text)
  /\ \E now \in Times :
       analysis_history' = Insert(analysis_history, sqlite_sequence,
                                  uploaded_files[index].name,
                                  full_response \o text, now)
  /\ sqlite_sequence' = NextId(analysis_history, sqlite_sequence)
  /\ issued' = Append(issued, NextId(analysis_history, sqlite_sequence))
  /\ UNCHANGED <<history, selected_id, view, pc, uploaded_files, index, log,
                 rows0, held, uploads>>

\* faulty variant: the buffer is assigned, not appended to
StreamChunkOverwrite(text) ==
  /\ pc = "stream"
  /\ full_response' = text
  /\ yielded' = Append(yielded, text)
  /\ UNCHANGED <<analysis_history, sqlite_sequence, history, selected_id, view,
                 pc, uploaded_files, index, log, rows0, issued, held, uploads>>

\* lines 123-125: one fragment is accumulated and yielded
StreamChunk(text) ==
  /\ pc = "stream"
  /\ full_response' = full_response \o text
  /\ yielded' = Append(yielded, text)
  /\ UNCHANGED <<analysis_history, sqlite_sequence, history, selected_id, view,
                 pc, uploaded_files, index, log, rows0, issued, held, uploads>>

\* faulty variant: the exception leaves the loop
StreamFailsAborts ==
  /\ pc = "stream"
  /\ log' = Append(log, Ev("error", index))
  /\ pc' = "idle"
  /\ full_response' = <<>>
  /\ view' = Display(analysis_history, selected_id)
  /\ UNCHANGED <<analysis_history, sqlite_sequence, history, selected_id,
                 uploaded_files, index, yielded, rows0, issued, held, uploads>>

\* lines 123-124, 141-142: the stream raises before its end; the generator
\* and its buffer are dropped, what was yielded stays with the caller
StreamFails ==
  /\ pc = "stream"
  /\ log' = Append(log, Ev("error", index))
  /\ pc' = "loop"
  /\ index' = index + 1
  /\ full_response' = <<>>
  /\ UNCHANGED <<analysis_history, sqlite_sequence, history, selected_id, view,
                 uploaded_files, yielded, rows0, issued, held, uploads>>

\* lines 137: whether the pause follows the file at position i
Pauses(i) == i < Len(uploaded_files)

\* faulty variant: the generator ends without the INSERT
StreamEndsNoInsert(now) ==
  /\ pc = "stream"
  /\ log' = log \o <<Ev("eos", index), Ev("success", index)>>
  /\ IF index < Len(uploaded_files)
     THEN pc' = "sleep" /\ UNCHANGED index
     ELSE pc' = "loop" /\ index' = index + 1
  /\ UNCHANGED <<analysis_history, sqlite_sequence, issued, history,
                 selected_id, view, uploaded_files, full_response, yielded,
                 rows0, held, uploads>>

\* lines 126-139: the stream is exhausted, the row is inserted and committed
StreamEnds(now) ==
  /\ pc = "stream"
  /\ analysis_history' = Insert(analysis_history, sqlite_sequence,
                                uploaded_files[index].name, full_response, now)
  /\ sqlite_sequence' = NextId(analysis_history, sqlite_sequence)
  /\ issued' = Append(issued, NextId(analysis_history, sqlite_sequence))
  /\ log' = log \o <<Ev("eos", index), Ev("execute", index),
                     Ev("commit", index), Ev("success", index)>>
  /\ IF Pauses(index)
     THEN pc' = "sleep" /\ UNCHANGED index
     ELSE pc' = "loop" /\ index' = index + 1
  /\ UNCHANGED <<history, selected_id, view, uploaded_files, full_response,
                 yielded, rows0, held, uploads>>

\* lines 126-130, 141-142: the stream is exhausted and the INSERT raises
InsertFails ==
  /\ pc = "stream"
  /\ log' = log \o <<Ev("eos", index), Ev("execute", index), Ev("error", index)>>
  /\ pc' = "loop"
  /\ index' = index + 1
  /\ full_response' = <<>>
  /\ yielded' = <<>>
  /\ UNCHANGED <<analysis_history, sqlite_sequence, history, selected_id, view,
                 uploaded_files, rows0, issued, held, uploads>>

\* lines 138-139: time.sleep(10)
Sleep ==
  /\ pc = "sleep"
  /\ log' = Append(log, Ev("sleep", index))
  /\ pc' = "loop"
  /\ index' = index + 1
  /\ UNCHANGED <<analysis_history, sqlite_sequence, history, selected_id, view,
                 uploaded_files, full_response, yielded, rows0, issued, held,
                 uploads>>

\* the loop is over; section 5 (lines 144-160) ends the run
BatchEnds ==
  /\ pc = "loop"
  /\ index > Len(uploaded_files)
  /\ pc' = "idle"
  /\ full_response' = <<>>
  /\ yielded' = <<>>
  /\ view' = Display(analysis_history, selected_id)
  /\ UNCHANGED <<analysis_history, sqlite_sequence, history, selected_id,
                 uploaded_files, index, log, rows0, issued, held, uploads>>

Next ==
  \/ Rerun
  \/ \E id \in 1..MaxUploads : SelectHistory(id)
  \/ ClearAll
  \/ \E files \in Batches(Files, MaxUploads - uploads), api_key \in Keys :
       StartBatch(files, api_key)
  \/ Skip
  \/ GenerateStarts
  \/ GenerateFails
  \/ \E text \in Fragments : Len(yielded) < MaxChunks /\ StreamChunk(text)
  \/ StreamFails
  \/ \E now \in Times : StreamEnds(now)
  \/ InsertFails
  \/ Sleep
  \/ BatchEnds

Spec == Init /\ [][Next]_vars

\* The same program with fragments of several texts, for the accumulation.
NextStream ==
  \/ Rerun
  \/ \E id \in 1..MaxStreamUploads : SelectHistory(id)
  \/ ClearAll
  \/ \E files \in Batches(StreamFiles, MaxStreamUploads - uploads),
        api_key \in Keys :
       StartBatch(files, api_key)
  \/ Skip
  \/ GenerateStarts
  \/ GenerateFails
  \/ \E text \in StreamFragments :
       Len(yielded) < MaxStreamChunks /\ StreamChunk(text)
  \/ StreamFails
  \/ \E now \in Times : StreamEnds(now)
  \/ InsertFails
  \/ Sleep
  \/ BatchEnds

SpecStream == Init /\ [][NextStream]_vars

\* The viewer alone: the table holds one record whose summary is any blob.
InitGraph ==
  /\ \E blob \in Blobs, now \in Times :
       analysis_history = Insert({}, 0, "a.txt", blob, now)
  /\ sqlite_sequence = 1
  /\ issued = <<1>>
  /\ history = <<>>
  /\ selected_id = <<>>
  /\ view = <<>>
  /\ pc = "idle"
  /\ uploaded_files = <<>>
  /\ index = 0
  /\ full_response = <<>>
  /\ yielded = <<>>
  /\ log = <<>>
  /\ rows0 = analysis_history
  /\ held = <<>>
  /\ uploads = 0

NextGraph ==
  \/ Rerun
  \/ \E id \in {r.id : r \in analysis_history} : SelectHistory(id)
  \/ ClearAll

SpecGraph == InitGraph /\ [][NextGraph]_vars

\* ------------------------------------------------------------------ claims
\* a script run that entered the batch loop
BatchRun == log # <<>> /\ log[1] = Ev("configure", 0)

FileIds == 1..Len(uploaded_files)

\* the files the loop has reached so far
Handled ==
  {i \in FileIds : i < index}
    \cup (IF pc \in {"stream", "sleep"} THEN {index} ELSE {})

Committed == {k \in DOMAIN log : log[k].op = "commit"}

\* C1: within a batch run, a row is committed for a file only after the end
\* of that file's stream; the table holds the rows of the start of the run
\* plus one per commit, so that no partial buffer is ever in it; and a file
\* whose call or stream failed before the end of the stream has no row.
C1_NoRecordBeforeDrained ==
  BatchRun =>
    /\ \A k \in Committed :
         \E j \in 1..(k - 1) : log[j] = Ev("eos", log[k].file)
    /\ rows0 \subseteq analysis_history
    /\ Cardinality(analysis_history) = Cardinality(rows0) + Cardinality(Committed)
    /\ pc = "stream" => Events(log, "commit", index) = {}
    /\ \A i \in FileIds :
         (Events(log, "error", i) # {} /\ Events(log, "eos", i) = {})
           => Events(log, "commit", i) = {}

\* C1 witness: a stream failed after it had delivered fragments
C1_Witness ==
  /\ BatchRun
  /\ pc = "loop"
  /\ log[Len(log)] = Ev("error", index - 1)
  /\ Events(log, "eos", index - 1) = {}
  /\ yielded # <<>>
  /\ analysis_history = rows0

\* C2: for every file of the batch the INSERT is executed once if the stream
\* of the file was exhausted without error and never otherwise, after the end
\* of the stream; it commits at most one row, and exactly one for a file
\* reported as saved.
C2_InsertExactlyOnce ==
  BatchRun =>
    \A i \in FileIds :
      /\ Cardinality(Events(log, "eos", i)) <= 1
      /\ Cardinality(Events(log, "execute", i)) = Cardinality(Events(log, "eos", i))
      /\ \A k \in Events(log, "execute", i) :
           \E j \in Events(log, "eos", i) : j < k
      /\ Cardinality(Events(log, "commit", i)) <= Cardinality(Events(log, "execute", i))
      /\ Events(log, "success", i) # {} => Cardinality(Events(log, "commit", i)) = 1

\* C2 witness: a finished batch with a drained file and a file never drained
C2_Witness ==
  /\ BatchRun
  /\ pc = "idle"
  /\ \E i, j \in FileIds :
       /\ Cardinality(Events(log, "commit", i)) = 1
       /\ Events(log, "eos", j) = {}
       /\ Events(log, "generate", j) # {}

\* the loop has just saved the row of a file and not yet gone on
JustSaved ==
  /\ pc \in {"sleep", "loop"}
  /\ log[Len(log)].op \in {"success", "sleep"}

\* C3: the summary of the row saved for a file is the concatenation, in
\* order, of the fragments yielded for the file.
C3_SummaryIsConcatenation ==
  (BatchRun /\ JustSaved) =>
    LET res == Fetch(analysis_history, issued[Len(issued)])
    IN /\ res # <<>>
       /\ res[1].summary = Flatten(yielded)
       /\ res[1].filename = uploaded_files[log[Len(log)].file].name

\* C3 witness: a row saved from two different non-empty fragments
C3_Witness ==
  /\ BatchRun
  /\ JustSaved
  /\ Len(yielded) = 2
  /\ yielded[1] # <<>>
  /\ yielded[2] # <<>>
  /\ yielded[1] # yielded[2]

\* C4: a batch started with an empty credential reports the missing
\* credential and nothing else: no call, no file processed, the table as it
\* was.
C4_MissingCredential ==
  (log # <<>> /\ log[1] = Ev("missing_credential", 0)) =>
    /\ log = <<Ev("missing_credential", 0)>>
    /\ pc = "idle"
    /\ analysis_history = rows0

\* C4 witness: files were submitted without a credential to a table with rows
C4_Witness ==
  /\ log = <<Ev("missing_credential", 0)>>
  /\ Len(uploaded_files) >= 2
  /\ analysis_history # {}

\* C5: a file larger than 1048576 bytes is skipped, never sent to the
\* service and never inserted, and the loop goes on to the files after it; a
\* file of exactly 1048576 bytes is not skipped.
C5_SizeGuard ==
  BatchRun =>
    /\ \A i \in FileIds :
         /\ uploaded_files[i].size > 1048576 =>
              /\ Events(log, "generate", i) = {}
              /\ Events(log, "execute", i) = {}
              /\ Events(log, "commit", i) = {}
              /\ i \in Handled => Events(log, "skip", i) # {}
         /\ uploaded_files[i].size = 1048576 =>
              /\ Events(log, "skip", i) = {}
              /\ i \in Handled => Events(log, "generate", i) # {}
    /\ pc = "idle" =>
         \A i \in FileIds :
           Events(log, "skip", i) # {} \/ Events(log, "generate", i) # {}

\* C5 witness: a skipped file followed by a file of exactly the limit
C5_Witness ==
  /\ BatchRun
  /\ pc = "idle"
  /\ \E i, j \in FileIds :
       /\ i < j
       /\ uploaded_files[i].size > 1048576
       /\ Events(log, "skip", i) # {}
       /\ uploaded_files[j].size = 1048576
       /\ Events(log, "commit", j) # {}

Generated == {k \in DOMAIN log : log[k].op = "generate"}

\* C6: every file within the size limit that the loop has reached was sent
\* to the service exactly once, in upload order, whatever happened to the
\* files before it; an error is reported once, for a file that was sent; and
\* the run ends only when the loop has passed the last file.
C6_ErrorIsolation ==
  BatchRun =>
    /\ \A i \in FileIds :
         /\ uploaded_files[i].size <= 1048576 =>
              Cardinality(Events(log, "generate", i))
                = (IF i \in Handled THEN 1 ELSE 0)
         /\ Cardinality(Events(log, "error", i)) <= 1
         /\ Events(log, "error", i) # {} => Events(log, "generate", i) # {}
    /\ \A k1, k2 \in Generated : k1 < k2 => log[k1].file < log[k2].file
    /\ pc = "idle" => index = Len(uploaded_files) + 1

\* C6 witness: a finished batch in which a file failed and a later one was sent
C6_Witness ==
  /\ BatchRun
  /\ pc = "idle"
  /\ \E i, j \in FileIds :
       /\ i < j
       /\ Events(log, "error", i) # {}
       /\ Events(log, "generate", j) # {}

\* C7: between any two consecutive submissions of one batch a pause has
\* occurred, and no pause follows the last file.
C7_PacingBetweenSubmissions ==
  BatchRun =>
    /\ \A k1, k2 \in Generated :
         k1 < k2 => \E k \in (k1 + 1)..(k2 - 1) : log[k].op = "sleep"
    /\ \A k \in DOMAIN log :
         log[k].op = "sleep" => log[k].file < Len(uploaded_files)

\* C8: every insert assigns an id greater than every id assigned before it,
\* no two rows share an id, and the selected id resolves to the row it was
\* selected for or to nothing.
C8_IdsNeverReused ==
  /\ \A i, j \in DOMAIN issued : i < j => issued[i] < issued[j]
  /\ \A r1, r2 \in analysis_history : r1.id = r2.id => r1 = r2
  /\ selected_id # <<>> =>
       Fetch(analysis_history, selected_id[1]) \in {<<>>, held}

\* C8 witness: the selected row was deleted and a row was inserted since
C8_Witness ==
  /\ selected_id # <<>>
  /\ held # <<>>
  /\ Fetch(analysis_history, selected_id[1]) = <<>>
  /\ analysis_history # {}

\* C9: after the clear-all button the table is empty and the listing of the
\* run that follows is empty, whatever the table held.
C9_DeleteAllEmpties ==
  log = <<Ev("delete_all", 0)>> =>
    /\ analysis_history = {}
    /\ history = <<>>
    /\ ListAll(analysis_history) = <<>>
    /\ pc = "idle"

\* C9 witness: clear-all on a table that held rows
C9_Witness ==
  /\ log = <<Ev("delete_all", 0)>>
  /\ rows0 # {}

\* the summary of the displayed record
Shown == Fetch(analysis_history, selected_id[1])[1].summary

Has(s, ch) == \E i \in 1..Len(s) : s[i] = ch

\* the text from the first "{" to the last "}" of s, both included
Braced(s) ==
  LET a == CHOOSE i \in 1..Len(s) : s[i] = "{" /\ \A j \in 1..(i - 1) : s[j] # "{"
      b == CHOOSE i \in 1..Len(s) : s[i] = "}" /\ \A j \in (i + 1)..Len(s) : s[j] # "}"
  IN IF a <= b THEN SubSeq(s, a, b) ELSE <<>>

\* C10: render_graph ends in the information, the warning or the graph, never
\* in an exception, and a run that only displays leaves the table alone; a blob without "{" or without
\* "}" gets the information, and a blob whose braced text does not decode
\* gets the warning; a graph is returned only for a braced text that decodes.
C10_ExtractorNeverRaises ==
  view # <<>> =>
    /\ view[1].graph.kind \in {"info", "warning", "graph"}
    /\ (~Has(Shown, "{") \/ ~Has(Shown, "}")) => view[1].graph = Info
    /\ (Has(Shown, "{") /\ Has(Shown, "}") /\ ~JsonValid(Braced(Shown)))
         => view[1].graph = Warning
    /\ view[1].graph.kind = "graph" =>
         Has(Shown, "{") /\ Has(Shown, "}") /\ JsonValid(Braced(Shown))
    /\ log = <<>> => analysis_history = rows0

\* C10 witness: a displayed blob with an opening brace and no closing brace
C10_Witness ==
  /\ view # <<>>
  /\ Has(Shown, "{")
  /\ ~Has(Shown, "}")
  /\ view[1].graph = Info

====
